---- MODULE Spec2Model ----
(***************************************************************************)
(* A model of solo_convert: the ingestion of Unity SOLO exports            *)
(* (src/data/unity_data) and their conversion to a YOLO dataset layout     *)
(* (src/data/yolo_conversion).                                             *)
(*                                                                         *)
(* Representation choices                                                  *)
(*  - A path of the output tree is the sequence of its components.  A      *)
(*    directory name or the manifest name is a string; the name of a       *)
(*    per-capture file is the record of the two parts of its f-string,     *)
(*    [stem |-> 0, rest |-> "_bbox.txt"] for "0_bbox.txt".                  *)
(*  - A source file name is the list of its dot-separated pieces, i.e. the *)
(*    value of name.split("."): <<"step0", "camera", "png">>.              *)
(*  - Python's None is the record None; an optional record is None or the  *)
(*    record, an optional number or list is None or Some(v).               *)
(*  - An insertion-ordered dict is a sequence of [key, value] records.     *)
(*  - A number rounded to p decimals is kept as the integer number of      *)
(*    units of 10^-p.                                                      *)
(***************************************************************************)
EXTENDS Integers, Sequences, FiniteSets, TLC

VARIABLES
    fs,             \* the file system under the working directory: path -> entry
    fs0,            \* history: the file system when the current call was entered
    calls,          \* history: the results of the calls made so far
    pc,             \* position of the running operation
    unity_data,     \* the loaded UnityData (labels, captures/metrics by sequence)
    cfg,            \* the arguments of the current unity_to_yolo call
    path,           \* unity_to_yolo: output directory returned by create_yolo_data_dir
    yaml_path,      \* unity_to_yolo: manifest path returned by create_yolo_data_dir
    valid_captures, \* unity_to_yolo: the eligible captures
    split,          \* unity_to_yolo: the split tags returned by generate_random_split
    i,              \* unity_to_yolo: loop index of the emission loop
    input,          \* the argument of the pure operation under study
    output          \* the result of the pure operation under study

vars == <<fs, fs0, calls, pc, unity_data, cfg, path, yaml_path,
          valid_captures, split, i, input, output>>

convVars == <<unity_data, cfg, path, yaml_path, valid_captures, split, i>>
pureVars == <<input, output>>

-----------------------------------------------------------------------------
(* Bounds *)

MaxCalls == 3       \* calls of create_yolo_data_dir in one behaviour
MaxSuffix == 2      \* siblings name_1 .. name_MaxSuffix that may pre-exist
MaxCaptures == 2    \* captures of a dataset
MaxInstances == 2   \* instance ids (and labels) of the annotation entries
MaxBoxes == 2       \* entries of a bounding box or keypoint record
MaxDim == 4         \* image width and height in pixels
MaxPix == 3         \* pixel coordinates and sizes of a bounding box
MaxPrecision == 2   \* precision argument
MaxBlocks == 2      \* definition blocks of annotation_definitions.json
MaxSpecs == 2       \* entries of the spec list of a definition block
MaxFiles == 3       \* manifest files glob returns

-----------------------------------------------------------------------------
(* Python values *)

None == [none |-> TRUE]
Some(v) == [some |-> v]

Last(s) == s[Len(s)]

RECURSIVE Flatten(_)
Flatten(ss) == IF ss = <<>> THEN <<>> ELSE Head(ss) \o Flatten(Tail(ss))

Range(s) == {s[k] : k \in DOMAIN s}

-----------------------------------------------------------------------------
(* The file system.  fs maps each existing path to its entry: a directory  *)
(* or a file with its content.  `by` is history only: the number of the    *)
(* call that created the entry, 0 for what existed before the first call.  *)

Dir(by) == [type |-> "dir", by |-> by]
File(content, by) == [type |-> "file", content |-> content, by |-> by]

exists(f, p) == p \in DOMAIN f
isdir(f, p) == p \in DOMAIN f /\ f[p].type = "dir"

\* os.path.normpath on a relative path given as its "/"-separated pieces:
\* empty pieces (doubled or trailing slashes) and "." pieces disappear.
normpath(p) == SelectSeq(p, LAMBDA c : c # "" /\ c # ".")

\* os.path.basename of a normalized path
basename(p) == Last(p)

\* f"{path}_{i}": the suffix is appended to the last component
suffixed(p, k) == [p EXCEPT ![Len(p)] = @ \o "_" \o ToString(k)]

\* os.path.join(path, name)
join(p, name) == Append(p, name)

\* mutant: the suffix is not advanced past existing siblings
first_free_unchecked(f, p, k) == k

\* the while loop of create_yolo_data_dir: the smallest i >= start such that
\* f"{path}_{i}" does not exist
RECURSIVE first_free(_, _, _)
first_free(f, p, k) ==
    IF exists(f, suffixed(p, k)) THEN first_free(f, p, k + 1) ELSE k

\* The directories Path.mkdir(parents=True) creates: the path and every
\* missing ancestor.
mkdir_parents(f, p, by) ==
    LET new == {SubSeq(p, 1, n) : n \in 1..Len(p)} \ DOMAIN f
    IN  [q \in DOMAIN f \cup new |-> IF q \in DOMAIN f THEN f[q] ELSE Dir(by)]

mkdir(f, p, by) == (p :> Dir(by)) @@ f

write(f, p, content, by) == (p :> File(content, by)) @@ f

\* mutant: a path that is a plain file is treated like an existing directory
create_yolo_data_dir_unchecked(f, in_path, include_test, by) ==
    LET p == normpath(in_path)
        name == basename(p)
        q == IF exists(f, p) THEN suffixed(p, first_free(f, p, 1)) ELSE p
        f1 == mkdir_parents(f, q, by)
        f2 == mkdir(f1, join(q, "train"), by)
        f3 == mkdir(f2, join(q, "val"), by)
        f4 == IF include_test THEN mkdir(f3, join(q, "test"), by) ELSE f3
    IN  [raised |-> FALSE, fs |-> f4, path |-> q,
         yaml_path |-> join(q, name \o ".yaml")]

\* create_yolo_data_dir(path, include_test): the result has raised = TRUE and
\* an unchanged file system when the function raises.
create_yolo_data_dir(f, in_path, include_test, by) ==
    LET p == normpath(in_path)
        name == basename(p)
    IN  IF exists(f, p) /\ ~isdir(f, p)
        THEN [raised |-> TRUE, fs |-> f, path |-> <<>>, yaml_path |-> <<>>]
        ELSE
          LET q == IF exists(f, p) THEN suffixed(p, first_free(f, p, 1)) ELSE p
              f1 == mkdir_parents(f, q, by)
              f2 == mkdir(f1, join(q, "train"), by)
              f3 == mkdir(f2, join(q, "val"), by)
              f4 == IF include_test THEN mkdir(f3, join(q, "test"), by) ELSE f3
          IN  [raised |-> FALSE, fs |-> f4, path |-> q,
               yaml_path |-> join(q, name \o ".yaml")]

-----------------------------------------------------------------------------
(* Rounding.  round(N / D, p) for integers N >= 0, D > 0, as the set of    *)
(* results the float computation can give, in units of 10^-p.  Python      *)
(* rounds the double nearest to N/D, correctly, ties to even.  The double  *)
(* lies on the same side of a decimal midpoint as N/D unless N/D is itself *)
(* a midpoint; a midpoint that is a binary fraction is held exactly and    *)
(* goes to the even neighbour, any other midpoint is held slightly above   *)
(* or below, so either neighbour can come out.                             *)

Pow10(p) == 10 ^ p

\* mutant: truncation instead of rounding
round_down(N, D, p) == {(N * Pow10(p)) \div D}

round(N, D, p) ==
    LET A == N * Pow10(p)
        f == A \div D
        rem == A % D
    IN  IF 2 * rem < D THEN {f}
        ELSE IF 2 * rem > D THEN {f + 1}
        ELSE IF (2 * f + 1) % (5 ^ p) = 0
             THEN {IF f % 2 = 0 THEN f ELSE f + 1}
             ELSE {f, f + 1}

-----------------------------------------------------------------------------
(* yolo_conversion/convert_modular.py: the annotation lines of a capture.  *)
(* Each operator gives the set of line lists the call can return (one      *)
(* list unless a rounding is ambiguous).  A line is the record of the      *)
(* fields the f-string prints.                                             *)

\* the four rounded numbers computed for one bounding box
bbox_numbers(capture, bounding_box, precision) ==
    LET img_width == capture.dimension[1]
        img_height == capture.dimension[2]
    IN  {[center_x |-> cx, center_y |-> cy, width |-> w, height |-> h] :
            cx \in round(2 * bounding_box.origin[1] + bounding_box.dimension[1],
                         2 * img_width, precision),
            cy \in round(2 * bounding_box.origin[2] + bounding_box.dimension[2],
                         2 * img_height, precision),
            w \in round(bounding_box.dimension[1], img_width, precision),
            h \in round(bounding_box.dimension[2], img_height, precision)}

bbox_line(label, nums) ==
    [label |-> label.id, center_x |-> nums.center_x, center_y |-> nums.center_y,
     width |-> nums.width, height |-> nums.height]

RECURSIVE bbox_loop(_, _, _)
bbox_loop(capture, values, precision) ==
    IF values = <<>> THEN {<<>>}
    ELSE {<<bbox_line(Head(values).label, nums)>> \o rest :
            nums \in bbox_numbers(capture, Head(values), precision),
            rest \in bbox_loop(capture, Tail(values), precision)}

get_bbox_annotations(capture, precision) ==
    bbox_loop(capture, capture.bounding_boxes_2d.values, precision)

\* mutant: the first keypoint entry is taken whatever its instance
RECURSIVE next_keypoint_any(_, _)
next_keypoint_any(kps, instance_id) ==
    IF kps = <<>> THEN None ELSE Head(kps)

\* next((kp for kp in capture.keypoints.values
\*       if kp.instance_id == bounding_box.instance_id), None)
RECURSIVE next_keypoint(_, _)
next_keypoint(kps, instance_id) ==
    IF kps = <<>> THEN None
    ELSE IF Head(kps).instance_id = instance_id THEN Head(kps)
    ELSE next_keypoint(Tail(kps), instance_id)

RECURSIVE keypoint_fields(_, _, _)
keypoint_fields(capture, keypoints, precision) ==
    IF keypoints = <<>> THEN {<<>>}
    ELSE {<<[x |-> kx, y |-> ky,
             visible |-> IF Head(keypoints).state = 2 THEN 1 ELSE 0]>> \o rest :
            kx \in round(Head(keypoints).location[1], capture.dimension[1], precision),
            ky \in round(Head(keypoints).location[2], capture.dimension[2], precision),
            rest \in keypoint_fields(capture, Tail(keypoints), precision)}

RECURSIVE keypoint_loop(_, _, _)
keypoint_loop(capture, values, precision) ==
    IF values = <<>> THEN {<<>>}
    ELSE LET bounding_box == Head(values)
             keypoint_annotation ==
                 next_keypoint(capture.keypoints.values, bounding_box.instance_id)
             rests == keypoint_loop(capture, Tail(values), precision)
         IN  IF keypoint_annotation = None THEN rests
             ELSE {<<[bbox |-> bbox_line(bounding_box.label, nums),
                      keypoints |-> kf]>> \o rest :
                     nums \in bbox_numbers(capture, bounding_box, precision),
                     kf \in keypoint_fields(capture, keypoint_annotation.keypoints,
                                            precision),
                     rest \in rests}

get_keypoint_annotations(capture, precision) ==
    keypoint_loop(capture, capture.bounding_boxes_2d.values, precision)

\* get_segmentation_annotations: one line per instance, the label id followed
\* by the boundary coordinates of the polygons detect_colored_polygons finds
\* for the instance's colour.
detect_colored_polygons(file_path, color) == <<>>

RECURSIVE segmentation_loop(_, _)
segmentation_loop(file_path, instances) ==
    IF instances = <<>> THEN <<>>
    ELSE <<[label |-> Head(instances).label.id,
            polygons |-> detect_colored_polygons(file_path, Head(instances).color)]>>
         \o segmentation_loop(file_path, Tail(instances))

get_segmentation_annotations(capture, precision) ==
    IF capture.instance_segmentation = None THEN <<>>
    ELSE segmentation_loop(capture.instance_segmentation.file_path,
                           capture.instance_segmentation.instances)

-----------------------------------------------------------------------------
(* unity_data/data.py: the accessors of a loaded UnityData.                *)

dict_keys(d) == [k \in DOMAIN d |-> d[k].key]
dict_values(d) == [k \in DOMAIN d |-> d[k].value]
dict_has(d, key) == \E k \in DOMAIN d : d[k].key = key
dict_get(d, key) == d[CHOOSE k \in DOMAIN d : d[k].key = key].value

\* UnityData.captures, UnityData.metrics
captures(data) == Flatten(dict_values(data.captures_by_sequence))
metrics(data) == Flatten(dict_values(data.metrics_by_sequence))

-----------------------------------------------------------------------------
(* yolo_conversion/convert_modular.py: unity_to_yolo                        *)

\* the text write_yaml_header writes, as the record of its parts
yaml_header(abs_dir, data, c) ==
    [path |-> abs_dir,
     train |-> "train", val |-> "val",
     test |-> IF c.include_test THEN Some("test") ELSE None,
     kpt_shape |-> IF c.include_keypoints /\ c.n_keypoints # None
                   THEN Some(<<c.n_keypoints.some, 3>>) ELSE None,
     flip_idx |-> IF c.include_keypoints /\ c.n_keypoints # None
                  THEN c.flip_idx ELSE None,
     names |-> [k \in DOMAIN data.labels |->
                   <<data.labels[k].id, data.labels[k].name>>]]

\* mutant: the semantic mask is not required of a capture
is_valid_without_mask(capture, c) ==
    /\ (c.include_bboxes \/ c.include_keypoints) => capture.bounding_boxes_2d # None
    /\ c.include_keypoints => capture.keypoints # None
    /\ c.include_segmentation => capture.instance_segmentation # None

\* the validity test of one capture (the body of the filter loop)
is_valid(capture, c) ==
    /\ (c.include_bboxes \/ c.include_keypoints) => capture.bounding_boxes_2d # None
    /\ c.include_keypoints => capture.keypoints # None
    /\ c.include_segmentation => capture.instance_segmentation # None
    /\ c.include_semantic_mask => capture.semantic_segmentation # None

collect_valid_captures(data, c) ==
    SelectSeq(captures(data), LAMBDA capture : is_valid(capture, c))

\* generate_random_split(n, val_fraction, test_fraction): the lists of split
\* tags the generator may return, one tag per item; "test" only with a
\* positive test fraction.  Fractions are in tenths.
generate_random_split(n, val_tenths, test_tenths) ==
    [1..n -> {"train", "val"} \cup (IF test_tenths > 0 THEN {"test"} ELSE {})]

\* capture.file_path.split(".")[-1]
img_ext_of(file_path) == Last(file_path)

\* os.path.splitext(file_path)[1]: the last dot of the name and what follows
splitext_ext(file_path) ==
    IF Len(file_path) > 1 THEN "." \o Last(file_path) ELSE ""

\* mutant: the last metric with id "Occlusion"
RECURSIVE next_occlusion_last(_)
next_occlusion_last(ms) ==
    IF ms = <<>> THEN None
    ELSE IF Last(ms).id = "Occlusion" THEN Last(ms)
    ELSE next_occlusion_last(SubSeq(ms, 1, Len(ms) - 1))

\* mutant: the first metric of the list, whatever its id
RECURSIVE next_occlusion_lenient(_)
next_occlusion_lenient(ms) == IF ms = <<>> THEN None ELSE Head(ms)

\* next((metric for metric in metrics if metric.id == "Occlusion"), None)
RECURSIVE next_occlusion(_)
next_occlusion(ms) ==
    IF ms = <<>> THEN None
    ELSE IF Head(ms).id = "Occlusion" THEN Head(ms)
    ELSE next_occlusion(Tail(ms))

occlusion_lines(values) ==
    [k \in DOMAIN values |->
        [instance_id |-> values[k].instance_id,
         percent_visible |-> values[k].percent_visible]]

\* mutant: the files are named after the capture's sequence
file_stem_by_sequence(n, capture) == capture.sequence

\* the stem of the files of the capture at loop index n: f'{i}...'
file_stem(n, capture) == n

\* mutant: every file goes to train/
out_file_in_train(out, s, stem, rest) ==
    join(join(out, "train"), [stem |-> stem, rest |-> rest])

\* os.path.join(path, s, f'{stem}{rest}')
out_file(out, s, stem, rest) == join(join(out, s), [stem |-> stem, rest |-> rest])

\* The body of the emission loop for index n with split tag s, given the
\* annotation lists computed for the capture: the file system it leaves and
\* whether it raised.
emit_capture(f, data, c, out, n, s, capture, ann_bbox, ann_kp, ann_seg, by) ==
    LET at(rest) == out_file(out, s, file_stem(n, capture), rest)
        f1 == write(f, at("." \o img_ext_of(capture.file_path)),
                    [copy_of |-> capture.file_path], by)
        f2 == IF ann_bbox # <<>>
              THEN write(f1, at("_bbox.txt"), ann_bbox, by) ELSE f1
        f3 == IF ann_kp # <<>>
              THEN write(f2, at("_keypoints.txt"), ann_kp, by) ELSE f2
        f4 == IF ann_seg # <<>>
              THEN write(f3, at("_segmentation.txt"), ann_seg, by) ELSE f3
    IN  IF ~isdir(f, join(out, s))
        THEN [raised |-> TRUE, fs |-> f]
        ELSE IF ~dict_has(data.metrics_by_sequence, capture.sequence)
        THEN [raised |-> TRUE, fs |-> f4]
        ELSE
          LET ms == dict_get(data.metrics_by_sequence, capture.sequence)
              metric == next_occlusion(ms)
          IN  IF metric = None
              THEN [raised |-> TRUE, fs |-> f4]
              ELSE
                LET occlusion_metric == metric.occlusion_metric
                    f5 == IF /\ c.include_occlusion
                             /\ occlusion_metric # None
                             /\ occlusion_metric.values # None
                          THEN write(f4, at("_occlusion.txt"),
                                     occlusion_lines(occlusion_metric.values.some),
                                     by)
                          ELSE f4
                    f6 == IF /\ c.include_semantic_mask
                             /\ capture.semantic_segmentation # None
                          THEN write(f5,
                                 at("_mask." \o
                                    splitext_ext(capture.semantic_segmentation.file_path)),
                                 [copy_of |-> capture.semantic_segmentation.file_path],
                                 by)
                          ELSE f5
                IN  [raised |-> FALSE, fs |-> f6]

-----------------------------------------------------------------------------
(* unity_data: the records built from the raw entries of the manifest      *)
(* files.  A directory "stem.suffix" whose last component has a dot is     *)
(* [stem, suffix]; a directory "parent/name" whose last component has no   *)
(* dot is [parent, name].  suffix and name are tokens: Digits(n) for the   *)
(* decimal numeral of n, Text(t) for a string that is not a numeral.       *)

Digits(n) == [digits |-> n]
Text(t) == [text |-> t]

\* int(token) succeeds
is_numeric(token) == "digits" \in DOMAIN token

token_string(token) ==
    IF is_numeric(token) THEN ToString(token.digits) ELSE token.text

\* path.split('.')[-1]: the suffix, or for a last component without a dot a
\* string that holds the "/" before that component
last_piece(dir) ==
    IF "suffix" \in DOMAIN dir THEN dir.suffix
    ELSE Text(dir.parent \o "/" \o token_string(dir.name))

\* int(path.split('.')[-1]), for a path whose last piece is a numeral
path_sequence(dir) == last_piece(dir).digits

\* os.path.join(path, filename), as the dot-separated pieces of the result
join_file(dir, filename) ==
    <<dir.stem, token_string(dir.suffix) \o "/" \o Head(filename)>> \o Tail(filename)

\* insertion into an insertion-ordered dict of lists: the bucketing loop of
\* read_captures / read_metrics
RECURSIVE bucket_by_sequence(_, _)
bucket_by_sequence(d, records) ==
    IF records = <<>> THEN d
    ELSE LET r == Head(records)
             d1 == IF dict_has(d, r.sequence) THEN d
                   ELSE Append(d, [key |-> r.sequence, value |-> <<>>])
             d2 == [k \in DOMAIN d1 |->
                      IF d1[k].key = r.sequence
                      THEN [d1[k] EXCEPT !.value = Append(@, r)] ELSE d1[k]]
         IN  bucket_by_sequence(d2, Tail(records))

Label(id, source_label_id, name) ==
    [id |-> id, source_label_id |-> source_label_id, name |-> name]

\* the type tags of the annotation kinds the conversion reads
BoundingBox2DAnnotation_type_name == "type.unity.com/unity.solo.BoundingBox2DAnnotation"
KeypointAnnotation_type_name == "type.unity.com/unity.solo.KeypointAnnotation"
InstanceSegmentationAnnotation_type_name == "type.unity.com/unity.solo.InstanceSegmentationAnnotation"
SemanticSegmentationAnnotation_type_name == "type.unity.com/unity.solo.SemanticSegmentationAnnotation"

\* the label of the registry an annotation value names
label_named(labels, name) == labels[CHOOSE k \in DOMAIN labels : labels[k].name = name]

\* the annotation parsers (X.from_dict of the annotation classes)
BoundingBox2DAnnotation_from_dict(raw, labels) ==
    [values |-> [k \in DOMAIN raw.values |->
        [instance_id |-> raw.values[k].instanceId,
         label |-> label_named(labels, raw.values[k].labelName),
         origin |-> raw.values[k].origin,
         dimension |-> raw.values[k].dimension]]]

KeypointAnnotation_from_dict(raw, labels) ==
    [values |-> [k \in DOMAIN raw.values |->
        [instance_id |-> raw.values[k].instanceId,
         keypoints |-> raw.values[k].keypoints]]]

InstanceSegmentationAnnotation_from_dict(raw, labels, dir) ==
    [file_path |-> join_file(dir, raw.filename),
     instances |-> [k \in DOMAIN raw.instances |->
        [instance_id |-> raw.instances[k].instanceId,
         label |-> label_named(labels, raw.instances[k].labelName),
         color |-> raw.instances[k].color]]]

SemanticSegmentationAnnotation_from_dict(raw, labels, dir) ==
    [file_path |-> join_file(dir, raw.filename)]

\* annotations[type] of the dict filled by the loop of Capture.from_dict (a
\* later entry of a type replaces an earlier one), None if the type is absent
RECURSIVE find_annotation(_, _)
find_annotation(annotations, type) ==
    IF annotations = <<>> THEN None
    ELSE IF Last(annotations).type = type THEN Last(annotations)
    ELSE find_annotation(SubSeq(annotations, 1, Len(annotations) - 1), type)

\* Capture.from_dict, for an entry tagged with a directory of numeric suffix
capture_from_dict(_dict, labels) ==
    LET dir == _dict.path
        sequence == path_sequence(dir)
        ann(type) == find_annotation(_dict.annotations, type)
    IN  [id |-> _dict.id,
         sequence |-> sequence,
         file_path |-> join_file(dir, _dict.filename),
         dimension |-> _dict.dimension,
         instance_segmentation |->
            IF ann(InstanceSegmentationAnnotation_type_name) = None THEN None
            ELSE InstanceSegmentationAnnotation_from_dict(ann(InstanceSegmentationAnnotation_type_name),
                                                 labels, dir),
         semantic_segmentation |->
            IF ann(SemanticSegmentationAnnotation_type_name) = None THEN None
            ELSE SemanticSegmentationAnnotation_from_dict(ann(SemanticSegmentationAnnotation_type_name),
                                                 labels, dir),
         bounding_boxes_2d |->
            IF ann(BoundingBox2DAnnotation_type_name) = None THEN None
            ELSE BoundingBox2DAnnotation_from_dict(ann(BoundingBox2DAnnotation_type_name), labels),
         keypoints |->
            IF ann(KeypointAnnotation_type_name) = None THEN None
            ELSE KeypointAnnotation_from_dict(ann(KeypointAnnotation_type_name), labels)]

TYPE_GENERIC == "type.unity.com/unity.solo.GenericMetric"
TYPE_OBJECT_COUNT == "type.unity.com/unity.solo.ObjectCountMetric"
TYPE_OCCLUSION == "type.unity.com/unity.solo.OcclusionMetric"

\* Metric.from_dict, for an entry tagged with a directory of numeric suffix;
\* values is None for an entry without "values", else Some(list)
metric_from_dict(_dict) ==
    [id |-> _dict.id, sequence |-> path_sequence(_dict.path),
     object_count_metric |->
        IF _dict.type # TYPE_OBJECT_COUNT THEN None ELSE [values |-> _dict.values],
     occlusion_metric |->
        IF _dict.type # TYPE_OCCLUSION THEN None ELSE [values |-> _dict.values]]

-----------------------------------------------------------------------------
(* Inputs: the datasets, file systems and arguments the behaviours start   *)
(* from.                                                                   *)

SequenceDir(n) == [stem |-> "solo/sequence", suffix |-> Digits(n)]

TheLabels == [n \in 1..MaxInstances |-> Label(n - 1, 10 + n, "label" \o ToString(n))]

RawBoundingBox(n) ==
    [instanceId |-> n, labelName |-> TheLabels[n].name, origin |-> <<n - 1, 0>>,
     dimension |-> <<1, 1>>]

RawKeypoints(n) ==
    [instanceId |-> n,
     keypoints |-> <<[location |-> <<n, 1>>, state |-> 2],
                     [location |-> <<0, 0>>, state |-> 1]>>]

RawInstance(n) == [instanceId |-> n, labelName |-> TheLabels[n].name, color |-> n]

\* the parsed entries of instance n
BoundingBox(n) ==
    BoundingBox2DAnnotation_from_dict([values |-> <<RawBoundingBox(n)>>], TheLabels).values[1]

Keypoints(n) ==
    KeypointAnnotation_from_dict([values |-> <<RawKeypoints(n)>>], TheLabels).values[1]

\* An annotation slot of a raw capture is "none" (absent), "empty" (present
\* without entries) or "full".
Slots == {"none", "empty", "full"}

\* the raw capture of frame `step` of sequence directory dir
RawCapture(dir, step, b, k, s, m) ==
    [path |-> dir, id |-> "camera",
     filename |-> <<"step" \o ToString(step), "camera", "png">>,
     dimension |-> <<4, 2>>,
     annotations |->
        (IF s = "none" THEN <<>>
         ELSE <<[type |-> InstanceSegmentationAnnotation_type_name,
                 filename |-> <<"step" \o ToString(step), "seg", "png">>,
                 instances |-> IF s = "empty" THEN <<>> ELSE <<RawInstance(1)>>]>>)
        \o (IF b = "none" THEN <<>>
            ELSE <<[type |-> BoundingBox2DAnnotation_type_name,
                    values |-> IF b = "empty" THEN <<>>
                               ELSE <<RawBoundingBox(1), RawBoundingBox(2)>>]>>)
        \o (IF k = "none" THEN <<>>
            ELSE <<[type |-> KeypointAnnotation_type_name,
                    values |-> IF k = "empty" THEN <<>> ELSE <<RawKeypoints(2)>>]>>)
        \o (IF m = "none" THEN <<>>
            ELSE <<[type |-> SemanticSegmentationAnnotation_type_name,
                    filename |-> <<"step" \o ToString(step), "sem", "png">>]>>)]

MakeCapture(n, step, b, k, s, m) ==
    capture_from_dict(RawCapture(SequenceDir(n), step, b, k, s, m), TheLabels)

OcclusionValue(n, v) == [instance_id |-> n, percent_visible |-> v]

\* raw metric entries of the sequence directory dir
RawMetric(kind, dir) ==
    CASE kind = "count" ->
           [id |-> "ObjectCount", path |-> dir, type |-> TYPE_OBJECT_COUNT,
            values |-> Some(<<>>)]
      [] kind = "occA" ->
           [id |-> "Occlusion", path |-> dir, type |-> TYPE_OCCLUSION,
            values |-> Some(<<OcclusionValue(1, 10), OcclusionValue(2, 5)>>)]
      [] kind = "occB" ->
           [id |-> "Occlusion", path |-> dir, type |-> TYPE_OCCLUSION,
            values |-> Some(<<OcclusionValue(1, 3)>>)]
      [] kind = "occEmpty" ->
           [id |-> "Occlusion", path |-> dir, type |-> TYPE_OCCLUSION,
            values |-> Some(<<>>)]
      [] kind = "occNoValues" ->
           [id |-> "Occlusion", path |-> dir, type |-> TYPE_OCCLUSION,
            values |-> None]
      [] kind = "occGeneric" ->
           [id |-> "Occlusion", path |-> dir, type |-> TYPE_GENERIC,
            values |-> None]

\* the metric lists a sequence may have (<<>>: the sequence has no metrics)
MetricKinds ==
    {<<>>, <<"count">>, <<"occGeneric">>, <<"occNoValues">>, <<"occEmpty">>,
     <<"occA">>, <<"count", "occA">>, <<"occA", "occB">>}

MakeMetrics(kinds, n) ==
    [k \in DOMAIN kinds |-> metric_from_dict(RawMetric(kinds[k], SequenceDir(n)))]

\* nondecreasing assignments of sequence numbers 1, 2, ... to n captures
SequenceMaps(n) ==
    {sq \in [1..n -> 1..2] :
        /\ n > 0 => sq[1] = 1
        /\ \A k \in 1..(n - 1) : sq[k + 1] \in {sq[k], sq[k] + 1}}

MakeData(caps, metricLists) ==
    [labels |-> TheLabels,
     captures_by_sequence |-> bucket_by_sequence(<<>>, caps),
     metrics_by_sequence |-> bucket_by_sequence(<<>>, Flatten(metricLists))]

OutputPaths == {<<"out">>, <<"out", "">>}

\* the file systems a behaviour may start from: the requested path (kinds[1])
\* and its siblings out_1, out_2, ... (kinds[2], kinds[3], ...) are absent,
\* directories or plain files
RootEntries == {"absent", "dir", "file"}

MakeFs(kinds) ==
    LET root(k) == IF k = 1 THEN <<"out">> ELSE suffixed(<<"out">>, k - 1)
        present == {k \in DOMAIN kinds : kinds[k] # "absent"}
    IN  [q \in {root(k) : k \in present} |->
            LET k == CHOOSE k \in present : root(k) = q
            IN  IF kinds[k] = "dir" THEN Dir(0) ELSE File(<<>>, 0)]

Config(b, k, s, m, o, nk, t) ==
    [output_path |-> <<"out">>, include_bboxes |-> b, include_keypoints |-> k,
     include_segmentation |-> s, include_semantic_mask |-> m,
     include_occlusion |-> o, n_keypoints |-> nk, flip_idx |-> None,
     include_test |-> t, precision |-> 6]

Configs(nks, ts) ==
    {Config(b, k, s, m, o, nk, t) : b \in BOOLEAN, k \in BOOLEAN, s \in BOOLEAN,
        m \in BOOLEAN, o \in BOOLEAN, nk \in nks, t \in ts}

-----------------------------------------------------------------------------
(* Actions of a conversion: unity_to_yolo                                   *)

\* entry up to the emission loop: the argument check, create_yolo_data_dir,
\* write_yaml_header, the validity filter and the split
UnityToYolo ==
    /\ pc = "idle"
    /\ fs0' = fs
    /\ calls' = calls + 1
    /\ IF cfg.include_keypoints /\ cfg.n_keypoints = None
       THEN /\ pc' = "failed"
            /\ UNCHANGED <<fs, path, yaml_path, valid_captures, split, i>>
       ELSE LET r == create_yolo_data_dir(fs, cfg.output_path, cfg.include_test, 1)
            IN  IF r.raised
                THEN /\ pc' = "failed"
                     /\ UNCHANGED <<fs, path, yaml_path, valid_captures, split, i>>
                ELSE /\ fs' = write(r.fs, r.yaml_path,
                                    yaml_header(r.path, unity_data, cfg), 1)
                     /\ path' = r.path
                     /\ yaml_path' = r.yaml_path
                     /\ valid_captures' = collect_valid_captures(unity_data, cfg)
                     /\ split' \in generate_random_split(
                                      Len(valid_captures'), 1,
                                      IF cfg.include_test THEN 1 ELSE 0)
                     /\ i' = 0
                     /\ pc' = "emit"
    /\ UNCHANGED <<unity_data, cfg, input, output>>

\* one iteration of the emission loop
EmitCapture ==
    /\ pc = "emit"
    /\ i < Len(split)
    /\ LET capture == valid_captures[i + 1]
           s == split[i + 1]
       IN  \E ann_bbox \in (IF cfg.include_bboxes /\ ~cfg.include_keypoints
                             THEN get_bbox_annotations(capture, cfg.precision)
                             ELSE {<<>>}),
              ann_kp \in (IF cfg.include_keypoints
                           THEN get_keypoint_annotations(capture, cfg.precision)
                           ELSE {<<>>}) :
             LET ann_seg == IF cfg.include_segmentation
                            THEN get_segmentation_annotations(capture, cfg.precision)
                            ELSE <<>>
                 r == emit_capture(fs, unity_data, cfg, path, i, s, capture,
                                   ann_bbox, ann_kp, ann_seg, 1)
             IN  /\ fs' = r.fs
                 /\ pc' = IF r.raised THEN "failed" ELSE "emit"
                 /\ i' = IF r.raised THEN i ELSE i + 1
    /\ UNCHANGED <<fs0, calls, unity_data, cfg, path, yaml_path, valid_captures,
                   split, input, output>>

\* the loop is over: return yaml_path
Return ==
    /\ pc = "emit"
    /\ i = Len(split)
    /\ pc' = "done"
    /\ UNCHANGED <<fs, fs0, calls, unity_data, cfg, path, yaml_path,
                   valid_captures, split, i, input, output>>

ConvNext == UnityToYolo \/ EmitCapture \/ Return

SecondMetricKinds == {<<>>, <<"count">>, <<"occA">>}

\* Conversions of datasets whose captures have none, empty or full
\* annotation records and whose sequences have any of the metric lists.
SpecCaptures ==
    {<<"full", "full", "full", "full">>, <<"empty", "empty", "empty", "none">>}

ConvInit(capKinds, metricKinds, rootKinds, configs) ==
    /\ \E n \in 1..MaxCaptures :
         \E kinds \in [1..n -> capKinds], sq \in SequenceMaps(n),
            mk \in {m \in [1..2 -> metricKinds] : m[2] \in SecondMetricKinds} :
            unity_data = MakeData(
                [k \in 1..n |-> MakeCapture(sq[k], k, kinds[k][1], kinds[k][2],
                                             kinds[k][3], kinds[k][4])],
                [k \in 1..2 |-> MakeMetrics(mk[k], k)])
    /\ \E rk \in rootKinds : fs = MakeFs(rk)
    /\ cfg \in configs
    /\ fs0 = fs
    /\ calls = 0
    /\ pc = "idle"
    /\ path = <<>>
    /\ yaml_path = <<>>
    /\ valid_captures = <<>>
    /\ split = <<>>
    /\ i = 0
    /\ input = None
    /\ output = None

Init ==
    ConvInit(SpecCaptures, MetricKinds, {<<"absent">>, <<"dir">>, <<"file">>},
             Configs({Some(17)}, BOOLEAN)
             \cup {Config(FALSE, TRUE, FALSE, FALSE, FALSE, None, t) : t \in BOOLEAN})

Next == ConvNext

Spec == Init /\ [][Next]_vars

\* Conversions of datasets whose captures have any combination of annotation
\* records, with every flag combination.
PresenceCaptures ==
    {<<b, k, s, m>> : b \in {"none", "full"}, k \in {"none", "full"},
                      s \in {"none", "full"}, m \in {"none", "full"}}

InitElig ==
    ConvInit(PresenceCaptures, {<<"occA">>}, {<<"absent">>},
             Configs({Some(17)}, {FALSE}))

SpecElig == InitElig /\ [][Next]_vars

-----------------------------------------------------------------------------
(* Vocabulary of the properties                                            *)

\* the per-capture files of the output tree
OutFiles == {p \in DOMAIN fs : Len(p) = 3}

TextRests == {"_bbox.txt", "_keypoints.txt", "_segmentation.txt", "_occlusion.txt"}

IsCopy(p) == p[3].rest \notin TextRests
IsImage(p) == IsCopy(p) /\ fs[p].content.copy_of \in
                  {c.file_path : c \in Range(captures(unity_data))}

\* the validity filter of the running call has been computed
Filtered == pc \in {"emit", "done"} \/ (pc = "failed" /\ path # <<>>)

\* every requested annotation kind is present on the capture
HasRequestedKinds(capture) ==
    /\ (cfg.include_bboxes \/ cfg.include_keypoints)
          => capture.bounding_boxes_2d # None
    /\ cfg.include_keypoints => capture.keypoints # None
    /\ cfg.include_segmentation => capture.instance_segmentation # None
    /\ cfg.include_semantic_mask => capture.semantic_segmentation # None

SourcesOf(capture) ==
    {capture.file_path}
    \cup (IF capture.semantic_segmentation = None THEN {}
          ELSE {capture.semantic_segmentation.file_path})

\* C1: a capture is eligible (is in the list that is indexed and emitted)
\* exactly when every requested annotation kind is present on it, whatever
\* the occlusion flag; every output file belongs to an eligible capture, a
\* completed run has emitted every eligible capture, and no file is copied
\* from a capture that misses a requested kind.
C1_EligibleIffRequestedPresent ==
    Filtered =>
      /\ valid_captures = SelectSeq(captures(unity_data), HasRequestedKinds)
      /\ \A p \in OutFiles :
            /\ p[3].stem \in 0..(Len(valid_captures) - 1)
            /\ HasRequestedKinds(valid_captures[p[3].stem + 1])
      /\ \A capture \in Range(captures(unity_data)) :
            IF HasRequestedKinds(capture)
            THEN pc = "done" =>
                   \E p \in OutFiles : /\ IsCopy(p)
                                        /\ fs[p].content.copy_of = capture.file_path
            ELSE \A p \in OutFiles :
                   IsCopy(p) => fs[p].content.copy_of \notin SourcesOf(capture)

\* a completed run over a dataset with an eligible and an ineligible capture,
\* occlusion requested
C1_Witness ==
    /\ pc = "done"
    /\ cfg.include_occlusion
    /\ \E c1, c2 \in Range(captures(unity_data)) :
          /\ HasRequestedKinds(c1)
          /\ ~HasRequestedKinds(c2)
          /\ \E p \in OutFiles : IsCopy(p) /\ fs[p].content.copy_of = c1.file_path

SplitTags == {"train", "val", "test"}

\* C2: after a completed run each eligible capture has one split tag, every
\* per-capture file lies under the output directory in the subdirectory of
\* the split assigned to its capture, and without include_test nothing is
\* ever created under test/.
C2_FilesOnlyInAssignedSplit ==
    /\ pc = "done" =>
          /\ Len(split) = Len(valid_captures)
          /\ \A n \in DOMAIN split : split[n] \in SplitTags
          /\ \A p \in OutFiles :
                /\ SubSeq(p, 1, Len(p) - 2) = path
                /\ p[3].stem + 1 \in DOMAIN split
                /\ p[2] = split[p[3].stem + 1]
    /\ ~cfg.include_test =>
          \A p \in DOMAIN fs : Len(p) >= 2 => p[2] # "test"

\* a completed run with test split whose captures went to test/ and train/,
\* each with an annotation file next to its image
C2_Witness ==
    /\ pc = "done"
    /\ cfg.include_test
    /\ Len(split) >= 2
    /\ split[1] = "test" /\ split[2] = "train"
    /\ \E p, q \in OutFiles :
          /\ p[2] = "test" /\ p[3].stem = 0 /\ ~IsCopy(p)
          /\ q[2] = "train" /\ q[3].stem = 1 /\ ~IsCopy(q)

\* C3: the stem of every per-capture file is the zero-based position of its
\* capture in the list of eligible captures (which follows the dataset's
\* flattened order); a completed run has used exactly the stems 0..n-1, and
\* no file name occurs twice in the output tree, whatever the splits.
C3_StemIsPositionalIndex ==
    Filtered =>
      /\ valid_captures =
            SelectSeq(captures(unity_data), LAMBDA c : c \in Range(valid_captures))
      /\ \A p \in OutFiles :
            /\ p[3].stem \in 0..(Len(valid_captures) - 1)
            /\ IsCopy(p) =>
                  fs[p].content.copy_of \in SourcesOf(valid_captures[p[3].stem + 1])
            /\ \A q \in OutFiles : q[3] = p[3] => q = p
      /\ pc = "done" =>
            /\ {p[3].stem : p \in OutFiles} = 0..(Len(valid_captures) - 1)
            /\ \A n \in DOMAIN valid_captures :
                  \E p \in OutFiles :
                     /\ p[3].stem = n - 1
                     /\ IsCopy(p)
                     /\ fs[p].content.copy_of = valid_captures[n].file_path

\* a completed run has emitted two captures with the same capture id and the
\* same sequence into different splits
C3_Witness ==
    /\ pc = "done"
    /\ Len(valid_captures) >= 2
    /\ valid_captures[1].id = valid_captures[2].id
    /\ valid_captures[1].sequence = valid_captures[2].sequence
    /\ split[1] # split[2]
    /\ \E p, q \in OutFiles : p[3].stem = 0 /\ q[3].stem = 1

\* C5: no annotation text file of the output tree is empty.
C5_NoEmptyAnnotationFile ==
    \A p \in OutFiles : ~IsCopy(p) => fs[p].content # <<>>

\* the call is wrongly configured: keypoints without n_keypoints, or the
\* output path is a plain file
ConfigError ==
    \/ cfg.include_keypoints /\ cfg.n_keypoints = None
    \/ exists(fs0, <<"out">>) /\ fs0[<<"out">>].type = "file"

\* C6: a call with a configuration error has failed and has left the file
\* system as it found it.
C6_ConfigErrorAbortsBeforeIO ==
    (calls = 1 /\ ConfigError) => (pc = "failed" /\ fs = fs0)

\* a call on an output path that is a plain file has failed
C6_Witness ==
    /\ calls = 1
    /\ pc = "failed"
    /\ exists(fs0, <<"out">>) /\ fs0[<<"out">>].type = "file"
    /\ ~(cfg.include_keypoints /\ cfg.n_keypoints = None)

\* a call with keypoints and without n_keypoints has failed
C6_WitnessKeypoints ==
    /\ calls = 1
    /\ pc = "failed"
    /\ cfg.include_keypoints /\ cfg.n_keypoints = None
    /\ isdir(fs0, <<"out">>)

\* the mask of the eligible capture at position n of a completed run is
\* requested and present
MaskRequested(n) ==
    /\ cfg.include_semantic_mask
    /\ valid_captures[n].semantic_segmentation # None

\* C11: after a completed run with semantic masks requested, the mask of the
\* capture with index i and mask extension ext is copied to
\* {split}/{i}_mask.{ext}, one dot between "_mask" and the extension.
C11_MaskCopiedWithSingleDot ==
    pc = "done" =>
      \A n \in DOMAIN valid_captures :
         MaskRequested(n) =>
            LET mask == valid_captures[n].semantic_segmentation.file_path
                p == out_file(path, split[n], n - 1, "_mask." \o Last(mask))
            IN  /\ exists(fs, p)
                /\ fs[p].content = [copy_of |-> mask]

\* the metric list of the capture's sequence, empty if the sequence has none
SequenceMetrics(capture) ==
    IF \E k \in DOMAIN unity_data.metrics_by_sequence :
          unity_data.metrics_by_sequence[k].key = capture.sequence
    THEN (CHOOSE e \in Range(unity_data.metrics_by_sequence) :
             e.key = capture.sequence).value
    ELSE <<>>

\* the positions in the capture's sequence metrics of the metrics with id
\* "Occlusion"
OcclusionIds(capture) ==
    {k \in DOMAIN SequenceMetrics(capture) :
        SequenceMetrics(capture)[k].id = "Occlusion"}

\* the positions of the eligible captures whose sequence has no metric with
\* id "Occlusion"
Uncorrelated == {n \in DOMAIN valid_captures : OcclusionIds(valid_captures[n]) = {}}

\* the zero-based index of the first of them
FirstUncorrelated == (CHOOSE n \in Uncorrelated : \A m \in Uncorrelated : n <= m) - 1

\* the image of the eligible capture with index n is in its split directory
ImageEmitted(n) ==
    LET capture == valid_captures[n + 1]
        p == out_file(path, split[n + 1], n, "." \o Last(capture.file_path))
    IN  exists(fs, p) /\ fs[p].content = [copy_of |-> capture.file_path]

\* C12: with occlusion requested and an eligible capture whose sequence has
\* no metric with id "Occlusion", the run never returns: it gets no further
\* than the first such capture k and fails there; the files of the captures
\* before k and the files already written for k stay, and no file exists
\* for a capture after k.
C12_FailsAtFirstUncorrelatedCapture ==
    (Filtered /\ cfg.include_occlusion /\ Uncorrelated # {}) =>
       /\ pc # "done"
       /\ i <= FirstUncorrelated
       /\ pc = "failed" => i = FirstUncorrelated /\ ImageEmitted(i)
       /\ \A n \in 0..(i - 1) : ImageEmitted(n)
       /\ \A p \in OutFiles : p[3].stem <= FirstUncorrelated

\* the run failed at its second capture: the first capture's files, its
\* occlusion file among them, and the image and an annotation file of the
\* second are on disk
C12_Witness ==
    /\ pc = "failed"
    /\ path # <<>>
    /\ cfg.include_occlusion
    /\ Uncorrelated = {2}
    /\ \E p, q, r \in OutFiles :
          /\ p[3] = [stem |-> 0, rest |-> "_occlusion.txt"]
          /\ q[3].stem = 1 /\ IsCopy(q)
          /\ r[3].stem = 1 /\ ~IsCopy(r)

\* the run failed at the first of two eligible captures: nothing exists for
\* the second
C12_WitnessFirst ==
    /\ pc = "failed"
    /\ path # <<>>
    /\ cfg.include_occlusion
    /\ Len(valid_captures) = 2
    /\ 1 \in Uncorrelated
    /\ ImageEmitted(0)

\* C13: a call without occlusion and without configuration error does not
\* fail, and when it has returned every eligible capture has been emitted,
\* whatever metrics the sequences of the captures have.
C13_NoCorrelationNeededWithoutOcclusion ==
    (calls = 1 /\ ~cfg.include_occlusion /\ ~ConfigError) =>
       /\ pc # "failed"
       /\ pc = "done" => \A n \in DOMAIN valid_captures : ImageEmitted(n - 1)

\* the first metric with id "Occlusion" of the capture's sequence
FirstOcclusion(capture) ==
    SequenceMetrics(capture)[CHOOSE k \in OcclusionIds(capture) :
                                \A l \in OcclusionIds(capture) : k <= l]

\* the occlusion file of the eligible capture with index n
OcclusionFile(n) == out_file(path, split[n + 1], n, "_occlusion.txt")

\* the lines "instance_id percent_visible" of a list of occlusion values
LinesOf(values) ==
    [k \in DOMAIN values |-> [instance_id |-> values[k].instance_id,
                              percent_visible |-> values[k].percent_visible]]

\* C15: with occlusion requested, the occlusion file of an emitted capture
\* holds the values of the first metric with id "Occlusion" of the capture's
\* sequence, never those of a later one, so two captures of one sequence get
\* the same file or both none; when that first metric is not of the occlusion
\* type, the capture is emitted without occlusion file and without error.
C15_OcclusionDependsOnSequenceOnly ==
    (Filtered /\ cfg.include_occlusion) =>
       /\ \A n \in 0..(i - 1) :
             LET capture == valid_captures[n + 1]
                 first == FirstOcclusion(capture).occlusion_metric
             IN  /\ OcclusionIds(capture) # {}
                 /\ IF first = None
                    THEN ~exists(fs, OcclusionFile(n))
                    ELSE first.values # None =>
                           /\ exists(fs, OcclusionFile(n))
                           /\ fs[OcclusionFile(n)].content = LinesOf(first.values.some)
       /\ \A n, m \in 0..(i - 1) :
             valid_captures[n + 1].sequence = valid_captures[m + 1].sequence =>
                IF exists(fs, OcclusionFile(n))
                THEN /\ exists(fs, OcclusionFile(m))
                     /\ fs[OcclusionFile(m)].content = fs[OcclusionFile(n)].content
                ELSE ~exists(fs, OcclusionFile(m))
       /\ pc = "failed" => OcclusionIds(valid_captures[i + 1]) = {}

\* two captures of a sequence with two "Occlusion" metrics of different
\* values have been emitted, both with the values of the first
C15_Witness ==
    /\ pc = "done"
    /\ cfg.include_occlusion
    /\ Len(valid_captures) = 2
    /\ valid_captures[1].sequence = valid_captures[2].sequence
    /\ Cardinality(OcclusionIds(valid_captures[1])) = 2
    /\ exists(fs, OcclusionFile(0)) /\ exists(fs, OcclusionFile(1))
    /\ fs[OcclusionFile(0)].content # <<>>

\* a capture whose sequence has an "Occlusion" metric that is not of the
\* occlusion type has been emitted
C15_WitnessOtherType ==
    /\ pc = "done"
    /\ cfg.include_occlusion
    /\ Len(valid_captures) >= 1
    /\ OcclusionIds(valid_captures[1]) # {}
    /\ FirstOcclusion(valid_captures[1]).occlusion_metric = None
    /\ ImageEmitted(0)

-----------------------------------------------------------------------------
(* Repeated calls of create_yolo_data_dir on the same requested path, from *)
(* any state of the path and of its first siblings.  `output` is the       *)
(* history of the results.                                                 *)

CreateYoloDataDir ==
    /\ pc = "dir"
    /\ calls < MaxCalls
    /\ \E in_path \in OutputPaths, include_test \in BOOLEAN :
          LET r == create_yolo_data_dir(fs, in_path, include_test, calls + 1)
          IN  /\ fs' = r.fs
              /\ input' = [path |-> in_path, include_test |-> include_test]
              /\ output' = Append(output, r)
    /\ fs0' = fs
    /\ calls' = calls + 1
    /\ UNCHANGED <<pc, convVars>>

InitDir ==
    /\ \E kinds \in [1..(MaxSuffix + 1) -> RootEntries] : fs = MakeFs(kinds)
    /\ fs0 = fs
    /\ calls = 0
    /\ pc = "dir"
    /\ unity_data = None
    /\ cfg = None
    /\ path = <<>>
    /\ yaml_path = <<>>
    /\ valid_captures = <<>>
    /\ split = <<>>
    /\ i = 0
    /\ input = None
    /\ output = <<>>

NextDir == CreateYoloDataDir

SpecDir == InitDir /\ [][NextDir]_vars

\* C7: a call of create_yolo_data_dir that returns has created a directory
\* that did not exist: the requested path if it was absent, else the sibling
\* name_k with the smallest k >= 1 that was absent; it has changed nothing
\* that existed, has created exactly that directory with train/, val/ and,
\* with include_test, test/, and returns a manifest path inside it, so that
\* directory and manifest path differ from those of every earlier call.
C7_FreshSiblingDirectory ==
    [][(pc = "dir" /\ calls' = calls + 1) =>
        LET r == output'[Len(output')]
            root == <<"out">>
            made == DOMAIN fs' \ DOMAIN fs
        IN  IF r.raised THEN fs' = fs /\ root \in DOMAIN fs /\ fs[root].type = "file"
            ELSE
              /\ r.path \notin DOMAIN fs
              /\ IF root \notin DOMAIN fs THEN r.path = root
                 ELSE \E k \in 1..(Cardinality(DOMAIN fs) + 1) :
                        /\ r.path = suffixed(root, k)
                        /\ \A j \in 1..(k - 1) : suffixed(root, j) \in DOMAIN fs
              /\ \A p \in DOMAIN fs : p \in DOMAIN fs' /\ fs'[p] = fs[p]
              /\ made = {r.path, join(r.path, "train"), join(r.path, "val")}
                          \cup (IF input'.include_test
                                THEN {join(r.path, "test")} ELSE {})
              /\ \A p \in made : fs'[p].type = "dir"
              /\ r.yaml_path = join(r.path, "out.yaml")
              /\ r.yaml_path \notin DOMAIN fs
              /\ \A n \in DOMAIN output :
                    ~output[n].raised =>
                       /\ output[n].path # r.path
                       /\ output[n].yaml_path # r.yaml_path
                       /\ isdir(fs', output[n].path)]_vars

\* two calls on a path that did not exist have created out and out_1, each
\* with its own subdirectories
C7_Witness ==
    /\ pc = "dir"
    /\ calls = 2
    /\ output[1].path = <<"out">> /\ output[2].path = <<"out_1">>
    /\ output[1].yaml_path = <<"out", "out.yaml">>
    /\ output[2].yaml_path = <<"out_1", "out.yaml">>
    /\ {<<"out", "train">>, <<"out", "val">>, <<"out_1", "train">>,
        <<"out_1", "val">>, <<"out_1", "test">>} \subseteq DOMAIN fs
    /\ <<"out", "test">> \notin DOMAIN fs

-----------------------------------------------------------------------------
(* The annotation functions on their own: get_bbox_annotations and         *)
(* get_keypoint_annotations applied to one capture.  `input` is the        *)
(* capture and the precision, `output` the returned list of lines.         *)

SeqsUpTo(S, n) == UNION {[1..k -> S] : k \in 0..n}

\* captures that differ in the entries of their records
MatchingCaptures ==
    {[dimension |-> <<4, 2>>,
      bounding_boxes_2d |-> [values |-> [k \in DOMAIN bs |-> BoundingBox(bs[k])]],
      keypoints |-> IF has_keypoints
                    THEN [values |-> [k \in DOMAIN ks |-> Keypoints(ks[k])]]
                    ELSE None] :
        bs \in SeqsUpTo(1..MaxInstances, MaxBoxes),
        ks \in SeqsUpTo(1..MaxInstances, MaxBoxes),
        has_keypoints \in BOOLEAN}

\* captures with one bounding box (and a keypoint at its origin) that differ
\* in their numbers
NumericCaptures ==
    {[dimension |-> <<w, h>>,
      bounding_boxes_2d |->
         [values |-> <<[instance_id |-> 1, label |-> TheLabels[1],
                        origin |-> <<x, y>>, dimension |-> <<bw, bh>>]>>],
      keypoints |->
         [values |-> <<[instance_id |-> 1,
                        keypoints |-> <<[location |-> <<x, y>>, state |-> 2]>>]>>]] :
        w \in 1..MaxDim, h \in 1..MaxDim, x \in 0..MaxPix, y \in 0..MaxPix,
        bw \in 0..MaxPix, bh \in 0..MaxPix}

InitAnn ==
    /\ \/ \E c \in MatchingCaptures : input = [capture |-> c, precision |-> 6]
       \/ \E c \in NumericCaptures, p \in 0..MaxPrecision :
             input = [capture |-> c, precision |-> p]
    /\ output = None
    /\ pc = "ann"
    /\ fs = <<>>
    /\ fs0 = <<>>
    /\ calls = 0
    /\ unity_data = None
    /\ cfg = None
    /\ path = <<>>
    /\ yaml_path = <<>>
    /\ valid_captures = <<>>
    /\ split = <<>>
    /\ i = 0

GetBboxAnnotations ==
    /\ pc = "ann"
    /\ output' \in get_bbox_annotations(input.capture, input.precision)
    /\ pc' = "bbox"
    /\ UNCHANGED <<fs, fs0, calls, convVars, input>>

\* unity_to_yolo calls it only on captures that passed the filter with
\* include_keypoints, which have both records
GetKeypointAnnotations ==
    /\ pc = "ann"
    /\ input.capture.keypoints # None
    /\ output' \in get_keypoint_annotations(input.capture, input.precision)
    /\ pc' = "keypoints"
    /\ UNCHANGED <<fs, fs0, calls, convVars, input>>

NextAnn == GetBboxAnnotations \/ GetKeypointAnnotations

SpecAnn == InitAnn /\ [][NextAnn]_vars

InBboxes == input.capture.bounding_boxes_2d.values
InKeypoints == input.capture.keypoints.values

HasKeypointMatch(bounding_box) ==
    \E k \in DOMAIN InKeypoints :
        InKeypoints[k].instance_id = bounding_box.instance_id

\* C4: get_keypoint_annotations returns one line for each bounding box entry
\* that has a keypoint entry of the same instance, in bounding box order, and
\* none for the others; get_bbox_annotations returns one line per bounding
\* box entry.
C4_OneLinePerMatchedBox ==
    /\ pc = "keypoints" =>
          LET matched == SelectSeq(InBboxes, HasKeypointMatch)
          IN  /\ DOMAIN output = DOMAIN matched
              /\ \A n \in DOMAIN matched :
                    output[n].bbox.label = matched[n].label.id
    /\ pc = "bbox" =>
          /\ DOMAIN output = DOMAIN InBboxes
          /\ \A n \in DOMAIN InBboxes : output[n].label = InBboxes[n].label.id

\* bounding boxes of instances 1 and 2, keypoints of instance 2 only: the
\* keypoint output is the one line of instance 2
C4_Witness ==
    /\ pc = "keypoints"
    /\ [k \in DOMAIN InBboxes |-> InBboxes[k].instance_id] = <<1, 2>>
    /\ [k \in DOMAIN InKeypoints |-> InKeypoints[k].instance_id] = <<2>>
    /\ Len(output) = 1
    /\ output[1].bbox.label = TheLabels[2].id

\* the same capture: the bounding box output has two lines
C4_WitnessBbox ==
    /\ pc = "bbox"
    /\ [k \in DOMAIN InBboxes |-> InBboxes[k].instance_id] = <<1, 2>>
    /\ input.capture.keypoints # None
    /\ [k \in DOMAIN InKeypoints |-> InKeypoints[k].instance_id] = <<2>>
    /\ Len(output) = 2

Abs(n) == IF n < 0 THEN -n ELSE n

\* 2 * 10^p * (c * size - extent / 2 - origin) for an emitted center c given
\* in units of 10^-p
RoundTripError(c, size, origin, extent, p) ==
    Abs(2 * c * size - Pow10(p) * extent - 2 * Pow10(p) * origin)

\* C9 as stated: the round trip of the emitted centers is within 10^-p.
C9_RoundTripWithinPrecision ==
    pc = "bbox" =>
      \A n \in DOMAIN output :
         LET b == InBboxes[n]
             d == input.capture.dimension
             p == input.precision
         IN  /\ RoundTripError(output[n].center_x, d[1], b.origin[1],
                               b.dimension[1], p) <= 2
             /\ RoundTripError(output[n].center_y, d[2], b.origin[2],
                               b.dimension[2], p) <= 2

\* C9 amended: each emitted number is within half a unit of 10^-p of the
\* exact normalized value, so the round trip of the centers is within
\* w * 10^-p / 2 and h * 10^-p / 2.
C9_RoundTripWithinScaledPrecision ==
    pc = "bbox" =>
      \A n \in DOMAIN output :
         LET b == InBboxes[n]
             d == input.capture.dimension
             p == input.precision
         IN  /\ RoundTripError(output[n].center_x, d[1], b.origin[1],
                               b.dimension[1], p) <= d[1]
             /\ RoundTripError(output[n].center_y, d[2], b.origin[2],
                               b.dimension[2], p) <= d[2]
             /\ 2 * Abs(output[n].width * d[1] - Pow10(p) * b.dimension[1]) <= d[1]
             /\ 2 * Abs(output[n].height * d[2] - Pow10(p) * b.dimension[2]) <= d[2]

\* a box whose center is not a multiple of 10^-p after normalization, in an
\* image wider than two pixels
C9_Witness ==
    /\ pc = "bbox"
    /\ Len(output) = 1
    /\ input.capture.dimension[1] > 2
    /\ RoundTripError(output[1].center_x, input.capture.dimension[1],
                      InBboxes[1].origin[1], InBboxes[1].dimension[1],
                      input.precision) > 2

-----------------------------------------------------------------------------
(* unity_data/data.py: read_labels.  `input` is the list                   *)
(* data['annotationDefinitions'], `output` the list assigned to            *)
(* self.labels.  A definition block is [spec |-> v] with v = None (no      *)
(* 'spec' key), NotAList (a value that is not a list) or Some(list); an    *)
(* entry of the list is [label_id |-> None or Some(n), label_name |-> None *)
(* or Some(name)], None standing for a missing key.                        *)

NotAList == [not_a_list |-> TRUE]

\* mutant: a name is never found among the registered labels
name_registered_never(labels, name) == FALSE

\* any(label.name == spec['label_name'] for label in labels)
name_registered(labels, name) == \E k \in DOMAIN labels : labels[k].name = name

\* the inner loop over the entries of one spec list; st = [labels, counter]
RECURSIVE spec_loop(_, _)
spec_loop(st, specs) ==
    IF specs = <<>> THEN st
    ELSE LET spec == Head(specs)
         IN  IF spec.label_id = None \/ spec.label_name = None
             THEN spec_loop(st, Tail(specs))
             ELSE IF ~name_registered(st.labels, spec.label_name.some)
             THEN spec_loop([labels |-> Append(st.labels,
                                        Label(st.counter, spec.label_id.some,
                                              spec.label_name.some)),
                             counter |-> st.counter + 1], Tail(specs))
             ELSE spec_loop(st, Tail(specs))

\* the outer loop over the definition blocks
RECURSIVE definition_loop(_, _)
definition_loop(st, annotation_definitions) ==
    IF annotation_definitions = <<>> THEN st
    ELSE LET annotation_definition == Head(annotation_definitions)
         IN  IF \/ annotation_definition.spec = None
                \/ annotation_definition.spec = NotAList
                \/ Len(annotation_definition.spec.some) = 0
             THEN definition_loop(st, Tail(annotation_definitions))
             ELSE definition_loop(spec_loop(st, annotation_definition.spec.some),
                                  Tail(annotation_definitions))

read_labels(annotation_definitions) ==
    definition_loop([labels |-> <<>>, counter |-> 0], annotation_definitions).labels

LabelNames == {"box", "can"}
SourceLabelIds == {7, 9}

SpecEntries ==
    {[label_id |-> id, label_name |-> name] :
        id \in {None} \cup {Some(n) : n \in SourceLabelIds},
        name \in {None} \cup {Some(n) : n \in LabelNames}}

DefinitionBlocks ==
    {[spec |-> v] : v \in {None, NotAList}
                          \cup {Some(l) : l \in SeqsUpTo(SpecEntries, MaxSpecs)}}

InitLabels ==
    /\ input \in SeqsUpTo(DefinitionBlocks, MaxBlocks)
    /\ output = None
    /\ pc = "labels"
    /\ fs = <<>>
    /\ fs0 = <<>>
    /\ calls = 0
    /\ unity_data = None
    /\ cfg = None
    /\ path = <<>>
    /\ yaml_path = <<>>
    /\ valid_captures = <<>>
    /\ split = <<>>
    /\ i = 0

ReadLabels ==
    /\ pc = "labels"
    /\ output' = read_labels(input)
    /\ pc' = "labelled"
    /\ UNCHANGED <<fs, fs0, calls, convVars, input>>

NextLabels == ReadLabels

SpecLabels == InitLabels /\ [][NextLabels]_vars

\* the entries of all spec lists, in reading order
AllSpecEntries ==
    Flatten([k \in DOMAIN input |->
                IF input[k].spec = None \/ input[k].spec = NotAList THEN <<>>
                ELSE input[k].spec.some])

HasName(e) == e.label_name # None
IsComplete(e) == e.label_name # None /\ e.label_id # None

\* The label list is the registry of the entries es: one label per distinct
\* name of es, ids 0..k-1 in the order of the first occurrences of the names,
\* each label with the label_id of the first occurrence of its name.
IsRegistryOf(labels, es) ==
    LET First(name) == CHOOSE j \in DOMAIN es :
                          /\ es[j].label_name.some = name
                          /\ \A l \in 1..(j - 1) : es[l].label_name.some # name
    IN  /\ \A j \in DOMAIN es :
              \E n \in DOMAIN labels : labels[n].name = es[j].label_name.some
        /\ \A n \in DOMAIN labels :
              /\ labels[n].id = n - 1
              /\ \E j \in DOMAIN es : es[j].label_name.some = labels[n].name
              /\ \A m \in DOMAIN labels : labels[m].name = labels[n].name => m = n
        /\ \A n, m \in DOMAIN labels :
              n < m => First(labels[n].name) < First(labels[m].name)

\* C8 as stated: the labels are the registry of the names occurring in the
\* spec lists, each with the source id of the first occurrence of its name.
C8_OneLabelPerNameInSpecLists ==
    pc = "labelled" =>
      LET es == SelectSeq(AllSpecEntries, HasName)
      IN  /\ IsRegistryOf(output, es)
          /\ \A n \in DOMAIN output :
                \E j \in DOMAIN es :
                   /\ es[j].label_name.some = output[n].name
                   /\ \A l \in 1..(j - 1) : es[l].label_name.some # output[n].name
                   /\ es[j].label_id = Some(output[n].source_label_id)

\* C8 amended: the labels are the registry of the names of the entries that
\* carry both label_id and label_name, each with the source id of the first
\* such entry of its name.
C8_OneLabelPerNameOfCompleteEntries ==
    pc = "labelled" =>
      LET es == SelectSeq(AllSpecEntries, IsComplete)
      IN  /\ IsRegistryOf(output, es)
          /\ \A n \in DOMAIN output :
                \E j \in DOMAIN es :
                   /\ es[j].label_name.some = output[n].name
                   /\ \A l \in 1..(j - 1) : es[l].label_name.some # output[n].name
                   /\ es[j].label_id = Some(output[n].source_label_id)

\* two blocks with spec lists repeat a name among their complete entries with
\* different source ids, give two labels, and hold an incomplete entry
C8_Witness ==
    /\ pc = "labelled"
    /\ Len(output) = 2
    /\ Len(input) = 2
    /\ input[1].spec # None /\ input[1].spec # NotAList
    /\ input[2].spec # None /\ input[2].spec # NotAList
    /\ \E j, l \in DOMAIN AllSpecEntries :
          /\ j < l
          /\ IsComplete(AllSpecEntries[j]) /\ IsComplete(AllSpecEntries[l])
          /\ AllSpecEntries[j].label_name = AllSpecEntries[l].label_name
          /\ AllSpecEntries[j].label_id # AllSpecEntries[l].label_id
    /\ \E j \in DOMAIN AllSpecEntries : ~IsComplete(AllSpecEntries[j])

-----------------------------------------------------------------------------
(* unity_data/data.py: loading the manifest files.  `input` is the list    *)
(* glob returned, in the order glob returned it; `output` the sorted list; *)
(* unity_data the loaded object.  A manifest file is [dir, name, captures, *)
(* metrics]; captures / metrics is None (key absent), NotAList or          *)
(* Some(list of raw entries).                                              *)


\* os.path.basename(os.path.dirname(x)).split('.')[-1]
sort_key_piece(file) ==
    IF "suffix" \in DOMAIN file.dir THEN file.dir.suffix ELSE file.dir.name

\* list.sort(key=...): stable, ascending by int(sort_key_piece)
RECURSIVE insert_sorted(_, _)
insert_sorted(sorted, x) ==
    IF sorted = <<>> THEN <<x>>
    ELSE IF sort_key_piece(Last(sorted)).digits <= sort_key_piece(x).digits
         THEN Append(sorted, x)
         ELSE Append(insert_sorted(SubSeq(sorted, 1, Len(sorted) - 1), x),
                     Last(sorted))

\* mutant: the list is left in the order glob returned it
sort_files_unsorted(files) == files

RECURSIVE sort_files(_)
sort_files(files) ==
    IF files = <<>> THEN <<>>
    ELSE insert_sorted(sort_files(SubSeq(files, 1, Len(files) - 1)), Last(files))

\* mutant: the keys are not converted, the list is returned as found
get_sorted_data_files_unchecked(files) == [raised |-> FALSE, files |-> files]

\* get_sorted_data_files: int() raises on a key that is not a numeral
get_sorted_data_files(files) ==
    IF \E k \in DOMAIN files : ~is_numeric(sort_key_piece(files[k]))
    THEN [raised |-> TRUE, files |-> <<>>]
    ELSE [raised |-> FALSE, files |-> sort_files(files)]

\* entry['path'] = os.path.dirname(file)
tagged(entry, dir) ==
    [f \in DOMAIN entry \cup {"path"} |-> IF f = "path" THEN dir ELSE entry[f]]

\* the first loop of read_captures / read_metrics: the entries of the files
\* that have a non-empty list under the key, each tagged with its directory
file_entries(file, key) ==
    IF file[key] = None \/ file[key] = NotAList THEN <<>>
    ELSE [j \in DOMAIN file[key].some |-> tagged(file[key].some[j], file.dir)]

collect_entries(files, key) ==
    Flatten([k \in DOMAIN files |-> file_entries(files[k], key)])

read_captures(frame_data_files, labels) ==
    LET raw == collect_entries(frame_data_files, "captures")
    IN  IF \E k \in DOMAIN raw : ~is_numeric(last_piece(raw[k].path))
        THEN [raised |-> TRUE, captures_by_sequence |-> <<>>]
        ELSE [raised |-> FALSE,
              captures_by_sequence |->
                 bucket_by_sequence(<<>>,
                    [k \in DOMAIN raw |-> capture_from_dict(raw[k], labels)])]

read_metrics(frame_data_files) ==
    LET raw == collect_entries(frame_data_files, "metrics")
    IN  IF \E k \in DOMAIN raw : ~is_numeric(last_piece(raw[k].path))
        THEN [raised |-> TRUE, metrics_by_sequence |-> <<>>]
        ELSE [raised |-> FALSE,
              metrics_by_sequence |->
                 bucket_by_sequence(<<>>,
                    [k \in DOMAIN raw |-> metric_from_dict(raw[k])])]

\* a raw entry as it stands in the manifest file, before it is tagged
untagged(entry) == [f \in DOMAIN entry \ {"path"} |-> entry[f]]

\* the j-th capture entry of the manifest file of frame `step`
FileCapture(step, j) ==
    untagged([RawCapture(SequenceDir(1), step,
                         IF j = 1 THEN "full" ELSE "none", "none", "none", "none")
                EXCEPT !.id = "camera" \o ToString(j),
                       !.filename = <<"step" \o ToString(step),
                                      "camera" \o ToString(j), "png">>])

\* the j-th metric entry of the manifest file of frame `step`
FileMetric(step, j) ==
    untagged([RawMetric(IF j = 1 THEN "occA" ELSE "count", SequenceDir(1))
                EXCEPT !.id = "metric" \o ToString(step) \o "_" \o ToString(j)])

\* the directories manifest files are found in: two sequence directories, a
\* directory elsewhere with the suffix of the second, one with a suffix that
\* is not a numeral, one whose name is a numeral without a dot
ManifestDirs ==
    <<SequenceDir(2), SequenceDir(1),
      [stem |-> "solo/extra/sequence", suffix |-> Digits(1)],
      [stem |-> "solo/sequence", suffix |-> Text("x")],
      [parent |-> "solo", name |-> Digits(5)]>>

\* what a manifest file may hold under "captures" and "metrics"
ContentKinds == 1..4

ManifestContent(step, kind) ==
    CASE kind = 1 ->
           [captures |-> Some(<<FileCapture(step, 1), FileCapture(step, 2)>>),
            metrics |-> Some(<<FileMetric(step, 1)>>)]
      [] kind = 2 ->
           [captures |-> Some(<<FileCapture(step, 1)>>),
            metrics |-> Some(<<FileMetric(step, 1), FileMetric(step, 2)>>)]
      [] kind = 3 -> [captures |-> NotAList, metrics |-> None]
      [] kind = 4 -> [captures |-> Some(<<>>), metrics |-> Some(<<FileMetric(step, 1)>>)]

\* the manifest file of frame n, found in directory ManifestDirs[n]
ManifestFile(n, kind) ==
    [dir |-> ManifestDirs[n],
     name |-> "step" \o ToString(n) \o ".frame_data.json",
     captures |-> ManifestContent(n, kind).captures,
     metrics |-> ManifestContent(n, kind).metrics]

\* the lists glob may return: distinct files in any order
GlobResults ==
    LET picks == {p \in SeqsUpTo((DOMAIN ManifestDirs) \X ContentKinds, MaxFiles) :
                     \A k, l \in DOMAIN p : k # l => p[k][1] # p[l][1]}
    IN  {[k \in DOMAIN p |-> ManifestFile(p[k][1], p[k][2])] : p \in picks}

InitLoad ==
    /\ input \in GlobResults
    /\ output = <<>>
    /\ pc = "glob"
    /\ fs = <<>>
    /\ fs0 = <<>>
    /\ calls = 0
    /\ unity_data = [labels |-> TheLabels]
    /\ cfg = None
    /\ path = <<>>
    /\ yaml_path = <<>>
    /\ valid_captures = <<>>
    /\ split = <<>>
    /\ i = 0

\* UnityData.__init__, after read_labels: frame_data_files = get_sorted_data_files()
GetSortedDataFiles ==
    /\ pc = "glob"
    /\ LET r == get_sorted_data_files(input)
       IN  /\ output' = r.files
           /\ pc' = IF r.raised THEN "load_failed" ELSE "sorted"
    /\ UNCHANGED <<fs, fs0, calls, input, convVars>>

\* self.read_captures(frame_data_files)
ReadCaptures ==
    /\ pc = "sorted"
    /\ LET r == read_captures(output, unity_data.labels)
       IN  IF r.raised
           THEN /\ pc' = "load_failed"
                /\ UNCHANGED unity_data
           ELSE /\ pc' = "captures_read"
                /\ unity_data' = [labels |-> unity_data.labels,
                                  captures_by_sequence |-> r.captures_by_sequence]
    /\ UNCHANGED <<fs, fs0, calls, input, output, cfg, path, yaml_path,
                   valid_captures, split, i>>

\* self.read_metrics(frame_data_files)
ReadMetrics ==
    /\ pc = "captures_read"
    /\ LET r == read_metrics(output)
       IN  IF r.raised
           THEN /\ pc' = "load_failed"
                /\ UNCHANGED unity_data
           ELSE /\ pc' = "loaded"
                /\ unity_data' = [labels |-> unity_data.labels,
                                  captures_by_sequence |-> unity_data.captures_by_sequence,
                                  metrics_by_sequence |-> r.metrics_by_sequence]
    /\ UNCHANGED <<fs, fs0, calls, input, output, cfg, path, yaml_path,
                   valid_captures, split, i>>

NextLoad == GetSortedDataFiles \/ ReadCaptures \/ ReadMetrics

SpecLoad == InitLoad /\ [][NextLoad]_vars

\* the entries of the manifest files: <<k, j>> is entry j of the k-th file
\* glob returned
EntriesOf(key) ==
    {e \in (DOMAIN input) \X (1..2) :
        /\ input[e[1]][key] # None /\ input[e[1]][key] # NotAList
        /\ e[2] \in DOMAIN input[e[1]][key].some}

\* the record entry e is parsed into
ParsedCapture(e) ==
    capture_from_dict(tagged(input[e[1]].captures.some[e[2]], input[e[1]].dir),
                      unity_data.labels)

ParsedMetric(e) ==
    metric_from_dict(tagged(input[e[1]].metrics.some[e[2]], input[e[1]].dir))

\* the numeric suffix of the directory the k-th file glob returned is in
SuffixOf(k) == input[k].dir.suffix.digits

\* entry e was discovered before entry f: its file sorts first (among files
\* of one suffix, in the order glob returned them), entries in file order
DiscoveredBefore(e, f) ==
    \/ SuffixOf(e[1]) < SuffixOf(f[1])
    \/ SuffixOf(e[1]) = SuffixOf(f[1]) /\ e[1] < f[1]
    \/ e[1] = f[1] /\ e[2] < f[2]

\* list holds the records of the entries exactly once each, by ascending
\* sequence and within a sequence in discovery order
ListsInDiscoveryOrder(list, entries, Parsed(_)) ==
    /\ Len(list) = Cardinality(entries)
    /\ \A e \in entries : \E n \in DOMAIN list : list[n] = Parsed(e)
    /\ \A n, m \in DOMAIN list : n < m => list[n].sequence <= list[m].sequence
    /\ \A e, f \in entries : \A n, m \in DOMAIN list :
          (list[n] = Parsed(e) /\ list[m] = Parsed(f) /\ DiscoveredBefore(e, f))
             => n < m

\* every bucket holds only records of its key, and no key has two buckets
BucketsByKey(d) ==
    /\ \A k \in DOMAIN d : \A n \in DOMAIN d[k].value : d[k].value[n].sequence = d[k].key
    /\ \A k, l \in DOMAIN d : d[k].key = d[l].key => k = l

\* C10: after loading, `captures` and `metrics` list every parsed entry
\* exactly once, by ascending sequence number and within one sequence in
\* discovery order (files sorted by the numeric suffix of their directory,
\* entries in file order); every bucket holds only records of its own key,
\* so the captures and the metrics of one directory have the same key.
C10_FlattenedViewsInDiscoveryOrder ==
    pc = "loaded" =>
       /\ ListsInDiscoveryOrder(captures(unity_data), EntriesOf("captures"),
                                ParsedCapture)
       /\ ListsInDiscoveryOrder(metrics(unity_data), EntriesOf("metrics"),
                                ParsedMetric)
       /\ BucketsByKey(unity_data.captures_by_sequence)
       /\ BucketsByKey(unity_data.metrics_by_sequence)
       /\ \A e \in EntriesOf("captures"), f \in EntriesOf("metrics") :
             e[1] = f[1] =>
                \E k \in DOMAIN unity_data.captures_by_sequence,
                   l \in DOMAIN unity_data.metrics_by_sequence :
                   /\ unity_data.captures_by_sequence[k].key
                        = unity_data.metrics_by_sequence[l].key
                   /\ ParsedCapture(e) \in Range(unity_data.captures_by_sequence[k].value)
                   /\ ParsedMetric(f) \in Range(unity_data.metrics_by_sequence[l].value)

\* a load of three files that glob returned out of order, two of them from
\* different directories of one suffix, all with captures and metrics
C10_Witness ==
    /\ pc = "loaded"
    /\ Len(input) = 3
    /\ \A k \in 1..3 : <<k, 1>> \in EntriesOf("captures") \cap EntriesOf("metrics")
    /\ SuffixOf(1) > SuffixOf(2)
    /\ SuffixOf(2) = SuffixOf(3)
    /\ input[2].dir # input[3].dir
    /\ <<3, 2>> \in EntriesOf("captures")
    /\ Len(unity_data.captures_by_sequence) = 2


\* the suffix of the parent directory of some manifest file is not a numeral
HasNonNumericSuffix ==
    \E k \in DOMAIN input : "digits" \notin DOMAIN sort_key_piece(input[k])

\* every manifest file is in a directory "stem.suffix" with a numeral suffix
AllSuffixesNumeric ==
    \A k \in DOMAIN input :
       /\ "suffix" \in DOMAIN input[k].dir
       /\ "digits" \in DOMAIN input[k].dir.suffix

\* the k-th and the l-th file glob returned are in directories of the same
\* numeric suffix
SuffixTie(k, l) ==
    /\ k # l
    /\ "digits" \in DOMAIN sort_key_piece(input[k])
    /\ "digits" \in DOMAIN sort_key_piece(input[l])
    /\ sort_key_piece(input[k]).digits = sort_key_piece(input[l]).digits

\* C14 as stated: no dataset is loaded from manifest files with a tie in the
\* sort key or with a non-numeric suffix.
C14_TieOrNonNumericSuffixIsFatal ==
    pc = "loaded" =>
       /\ ~HasNonNumericSuffix
       /\ \A k, l \in DOMAIN input : ~SuffixTie(k, l)

\* C14 amended: a non-numeric suffix is fatal, nothing is read or loaded;
\* a tie is not: with numeric suffixes throughout the load does not fail,
\* and the captures of two files of one suffix are filed under one sequence
\* key, those of the file glob returned first before those of the other.
C14_NonNumericSuffixIsFatalTieIsNot ==
    /\ HasNonNumericSuffix => pc \in {"glob", "load_failed"}
    /\ AllSuffixesNumeric => pc # "load_failed"
    /\ pc = "loaded" =>
          \A e, f \in EntriesOf("captures") :
             (SuffixTie(e[1], f[1]) /\ e[1] < f[1]) =>
                \E b \in DOMAIN unity_data.captures_by_sequence :
                   LET bucket == unity_data.captures_by_sequence[b].value
                   IN  \E n, m \in DOMAIN bucket :
                          /\ n < m
                          /\ bucket[n] = ParsedCapture(e)
                          /\ bucket[m] = ParsedCapture(f)

\* two manifest files from different directories of one suffix, both with
\* captures, are loaded into one sequence
C14_Witness ==
    /\ pc = "loaded"
    /\ Len(input) = 2
    /\ SuffixTie(1, 2)
    /\ input[1].dir # input[2].dir
    /\ <<1, 1>> \in EntriesOf("captures")
    /\ <<2, 1>> \in EntriesOf("captures")
    /\ Len(unity_data.captures_by_sequence) = 1

\* a load with a manifest file in a directory of non-numeric suffix failed
C14_WitnessNonNumeric ==
    /\ pc = "load_failed"
    /\ HasNonNumericSuffix
    /\ Len(input) >= 2


=============================================================================
